---- MODULE Spec2Model ----
(***************************************************************************)
(* relocswap (src/main.cc): parse the dynamic relocation sections of an    *)
(* ELF image, dump them, and write a copy of the image in which pairs of   *)
(* relocation entries have their r_offset (and r_addend) fields exchanged. *)
(*                                                                         *)
(* Unit of the model: one "cell" is one relocation field (4 bytes for      *)
(* ELFCLASS32, 8 bytes for ELFCLASS64).  File offsets and sizes are in     *)
(* cells; an Elf_Rel is 2 cells, an Elf_Rela 3 cells.  The modelled file   *)
(* region is the one section offsets address; the ELF header and the       *)
(* section header table are read as records drawn when they are read.      *)
(***************************************************************************)
EXTENDS Integers, Sequences, FiniteSets, TLC

\* ---------------------------------------------------------------- bounds
MaxShnum == 2      \* largest e_shnum of an input image
MaxSwaps == 2      \* largest -n argument
FileLen  == 6      \* cells of the input file

\* ------------------------------------------------------- program constants
SizeofRel  == 2    \* sizeof(RelT) in cells:  r_offset, r_info
SizeofRela == 3    \* sizeof(RelaT) in cells: r_offset, r_info, r_addend

None   == "none"
NoFile == <<-1>>     \* the output path was never opened (no cell is negative)

Min(a, b) == IF a < b THEN a ELSE b
Max(a, b) == IF a > b THEN a ELSE b

\* The string "N/A" as characters.
NA == <<78, 47, 65>>

\* A byte past the end of a buffer: whatever the heap holds there.
Garbage == 7

\* ---------------------------------------------------------- the input file
\* Cell k (0-based offset k-1) holds k; the last cell holds 0 (a NUL).
input == [k \in 1..FileLen |-> IF k = FileLen THEN 0 ELSE k]

\* The section-name string table after addSectionStringTable: element idx+1
\* is the NUL-terminated string that starts at byte idx of the buffer.
SectionNames == <<".rel.dyn", ".rela.dyn", ".rela.plt", ".dynstr", ".dynsym", ".text">>

Shdr(t, n, o, s, e) ==
  [sh_type |-> t, sh_name |-> n, sh_offset |-> o, sh_size |-> s, sh_entsize |-> e]

\* Section headers an input image may hold.
Shdrs ==
  \* SHT_REL named .rel.dyn
  { Shdr("SHT_REL", 0, 0, 4, 2),                  \* two entries
    Shdr("SHT_REL", 0, 1, 2, 2),                  \* one entry, inside the former
    Shdr("SHT_REL", 0, FileLen - 3, 4, 2) }       \* second entry is cut short
  \cup
  \* SHT_RELA named .rela.dyn / .rela.plt
  { Shdr("SHT_RELA", 1, 0, 8, 4),                 \* two entries, sh_entsize # sizeof(RelaT)
    Shdr("SHT_RELA", 1, 0, 0, 3),                 \* empty
    Shdr("SHT_RELA", 1, FileLen - 5, 6, 3),       \* second entry is cut short
    Shdr("SHT_RELA", 2, 0, 3, 3) }                \* one entry
  \cup
  \* SHT_STRTAB named .dynstr; the tables of these images end with a NUL
  \* (relocSymName on a table without one is explored under SpecSym)
  { Shdr("SHT_STRTAB", 3, FileLen - 2, 2, 0), Shdr("SHT_STRTAB", 3, FileLen - 1, 1, 0),
    Shdr("SHT_STRTAB", 3, FileLen - 1, 2, 0) }    \* cut short
  \cup
  \* SHT_DYNSYM named .dynsym
  { Shdr("SHT_DYNSYM", 4, FileLen - 1, 1, 1),
    Shdr("SHT_DYNSYM", 4, FileLen - 1, 2, 1) }    \* second symbol is cut short
  \cup
  \* not recognized: the name of another type, a name index outside the buffer
  { Shdr("SHT_REL", 3, 0, 4, 2),
    Shdr("SHT_STRTAB", Len(SectionNames), 0, 2, 0) }

\* e_ident as parseElf sees it.
Idents ==
  { [readOk |-> FALSE, magicOk |-> FALSE, class |-> "ELFCLASSNONE"],
    [readOk |-> TRUE,  magicOk |-> FALSE, class |-> "ELFCLASS64"],
    [readOk |-> TRUE,  magicOk |-> TRUE,  class |-> "ELFCLASSNONE"],
    [readOk |-> TRUE,  magicOk |-> TRUE,  class |-> "ELFCLASS32"],
    [readOk |-> TRUE,  magicOk |-> TRUE,  class |-> "ELFCLASS64"] }

\* ------------------------------------------------------------------- state
VARIABLES
  pc,                 \* position in main
  err,                \* message of the errExit that ended the run
  nSwaps, doDump, outFname,   \* main's options (-n, -d, -o given)
  ident,              \* e_ident read by parseElf
  cls,                \* ElfT instantiation: "ELFCLASS32" or "ELFCLASS64"
  e_shnum,            \* hdr.e_shnum
  i,                  \* loop counter of parse, then of swapN
  shdrs,              \* section headers read so far by parse
  relocs,             \* ElfT::relocs
  relocsAddends,      \* ElfT::relocsAddends
  symbolTable,        \* ElfT::symbolTable (st_name of each symbol)
  stringTable,        \* ElfT::stringTable
  sectionStringTable, \* ElfT::sectionStringTable
  stdout,             \* lines written to std::cout
  output,             \* contents of the file at the output path
  ioOps,              \* seekp and write calls made on the output stream
  rInfo, symName, strReads, symReads  \* one call of relocSymName

vars == <<pc, err, nSwaps, doDump, outFname, ident, cls, e_shnum, i, shdrs,
          relocs, relocsAddends, symbolTable, stringTable, sectionStringTable,
          stdout, output, ioOps, rInfo, symName, strReads, symReads>>

elfVars  == <<relocs, relocsAddends, symbolTable, stringTable>>
argVars  == <<nSwaps, doDump, outFname>>
symVars  == <<rInfo, symName, strReads, symReads>>

\* --------------------------------------------------------------- file reads
\* Cells [off, off+n) of the input file (fp.seekg(off); fp.read(.., n)).
ReadOk(off, n) == off + n <= FileLen
Cells(off, n)  == [k \in 1..n |-> input[off + k]]

\* ------------------------------------------------------------------ isSection
isSection(idx, name) ==
  idx < Len(sectionStringTable) /\ sectionStringTable[idx + 1] = name

IsRelocSection(shdr) ==
  /\ shdr.sh_type \in {"SHT_REL", "SHT_RELA"}
  /\ \/ isSection(shdr.sh_name, ".rel.dyn")
     \/ isSection(shdr.sh_name, ".rela.dyn")
     \/ isSection(shdr.sh_name, ".rela.plt")

IsDynStr(shdr) == shdr.sh_type = "SHT_STRTAB" /\ isSection(shdr.sh_name, ".dynstr")
IsDynSym(shdr) == shdr.sh_type = "SHT_DYNSYM" /\ isSection(shdr.sh_name, ".dynsym")

\* -------------------------------------------------------------------- addRels
EntryCount(shdr) == shdr.sh_size \div shdr.sh_entsize

\* fp.tellg() before the k-th read (k from 0): the reads are consecutive
\* and each takes sizeof(RelT) / sizeof(RelaT).
RelOffsetByEntsize(shdr, k, width) == shdr.sh_offset + k * shdr.sh_entsize
RelOffset(shdr, k, width) == shdr.sh_offset + k * width

\* relocs.emplace_back(relOffset, rel) for each entry read, in order.
emplace_first_only(store, read) == IF store = <<>> THEN read ELSE store
emplace_back(store, read) == store \o read

DecodeRel(c)  == [r_offset |-> c[1], r_info |-> c[2]]
DecodeRela(c) == [r_offset |-> c[1], r_info |-> c[2], r_addend |-> c[3]]

\* Entries read before the first short read.
GoodReads(shdr, width) ==
  IF shdr.sh_offset > FileLen THEN 0
  ELSE Min(EntryCount(shdr), (FileLen - shdr.sh_offset) \div width)

addRels(shdr) ==
  LET isRel == shdr.sh_type = "SHT_REL"
      width == IF isRel THEN SizeofRel ELSE SizeofRela
      m     == GoodReads(shdr, width)
      read  == [k \in 1..m |->
                 [first  |-> RelOffset(shdr, k - 1, width),
                  second |-> IF isRel
                             THEN DecodeRel(Cells(shdr.sh_offset + (k - 1) * width, width))
                             ELSE DecodeRela(Cells(shdr.sh_offset + (k - 1) * width, width))]]
  IN [ok            |-> m = EntryCount(shdr),
      msg           |-> "Failed to read relocation.",
      relocs        |-> IF isRel THEN emplace_back(relocs, read) ELSE relocs,
      relocsAddends |-> IF isRel THEN relocsAddends ELSE emplace_back(relocsAddends, read),
      symbolTable   |-> symbolTable,
      stringTable   |-> stringTable]

\* -------------------------------------------------------------- addStringTable
\* resize(sh_size) then read(sh_size): the table is replaced.
StringTableLoaded(old, new) == new

addStringTable(shdr) ==
  LET ok == ReadOk(shdr.sh_offset, shdr.sh_size)
  IN [ok            |-> ok,
      msg           |-> "Failed to read string table.",
      relocs        |-> relocs,
      relocsAddends |-> relocsAddends,
      symbolTable   |-> symbolTable,
      stringTable   |-> IF ok
                        THEN StringTableLoaded(stringTable, Cells(shdr.sh_offset, shdr.sh_size))
                        ELSE [k \in 1..shdr.sh_size |-> 0]]

\* -------------------------------------------------------------- addSymbolTable
\* n reads of sh_entsize each; st_name is the first field of SymT (the
\* low 32 bits of the first cell, which is the cell for values below 2^31).
addSymbolTable(shdr) ==
  LET n    == EntryCount(shdr)
      m    == IF shdr.sh_offset > FileLen THEN 0
              ELSE Min(n, (FileLen - shdr.sh_offset) \div shdr.sh_entsize)
      read == [k \in 1..m |-> input[shdr.sh_offset + (k - 1) * shdr.sh_entsize + 1]]
  IN [ok            |-> m = n,
      msg           |-> "Failed to read symbol table entry.",
      relocs        |-> relocs,
      relocsAddends |-> relocsAddends,
      symbolTable   |-> symbolTable \o read,
      stringTable   |-> stringTable]

\* ---------------------------------------------------------------- relocSymName
\* A 64-bit value as two 32-bit halves; a cell of the modelled file is
\* below 2^31 and has a zero high half.
Wide(v) == [hi |-> 0, lo |-> v]

\* ELF32_R_SYM(i) is i >> 8 (r_info has 32 bits there), ELF64_R_SYM(i) is
\* i >> 32.
R_SYM(c, info) == IF c = "ELFCLASS32" THEN info.lo \div (2^8) ELSE info.hi

\* 0-based positions of the NULs of strtab at or after st.
NulsFrom(strtab, st) == { p \in st..(Len(strtab) - 1) : strtab[p + 1] = 0 }
FirstNul(strtab, st) == CHOOSE p \in NulsFrom(strtab, st) : \A q \in NulsFrom(strtab, st) : p <= q

\* The possible results of relocSymName(info): the name returned, the
\* 0-based elements of stringTable and symbolTable it read (an element at
\* Len or beyond is outside the buffer), and whether the call faulted.
\* std::string(&stringTable[st_name]) reads up to the first NUL; when the
\* table holds none from st_name on, the read runs past the buffer and the
\* behaviour is undefined: the name ends wherever a zero byte happens to be,
\* or the read faults.
relocSymName(info, c, symtab, strtab) ==
  LET symIdx == R_SYM(c, info)
      st     == symtab[symIdx + 1]
      Res(nm, sr, yr, cr) == [name |-> nm, strReads |-> sr, symReads |-> yr, crash |-> cr]
  IN IF symIdx < Len(symtab)
     THEN IF st < Len(strtab)
          THEN IF NulsFrom(strtab, st) # {}
               THEN { Res(SubSeq(strtab, st + 1, FirstNul(strtab, st)),
                          st..FirstNul(strtab, st), {symIdx}, FALSE) }
               ELSE { Res(SubSeq(strtab, st + 1, Len(strtab)),
                          st..Len(strtab), {symIdx}, FALSE),
                      Res(SubSeq(strtab, st + 1, Len(strtab)) \o <<Garbage>>,
                          st..(Len(strtab) + 1), {symIdx}, FALSE),
                      Res(<<>>, st..Len(strtab), {symIdx}, TRUE) }
          ELSE { Res(NA, {}, {symIdx}, FALSE) }
     ELSE { Res(NA, {}, {}, FALSE) }

\* ------------------------------------------------------------------ dumpRelocs
RelLine(k, pr, nm) ==
  [kind |-> "entry", shape |-> "rel", idx |-> k, first |-> pr.first,
   r_offset |-> pr.second.r_offset, r_info |-> pr.second.r_info, sym |-> nm]

RelaLine(k, pr, nm) ==
  [kind |-> "entry", shape |-> "rela", idx |-> k, first |-> pr.first,
   r_offset |-> pr.second.r_offset, r_info |-> pr.second.r_info,
   r_addend |-> pr.second.r_addend, sym |-> nm]

\* The names relocSymName can return for an entry.
Names(pr) ==
  { o.name : o \in { r \in relocSymName(Wide(pr.second.r_info), cls, symbolTable, stringTable) :
                     ~r.crash } }

\* The possible line sequences of entries k.. of one sequence (k from 1).
RECURSIVE EntryLines(_, _, _)
EntryLines(store, shape, k) ==
  IF k > Len(store) THEN { <<>> }
  ELSE { <<IF shape = "rel" THEN RelLine(k - 1, store[k], nm)
                            ELSE RelaLine(k - 1, store[k], nm)>> \o rest :
           nm \in Names(store[k]), rest \in EntryLines(store, shape, k + 1) }

\* The number printed in the count header of a sequence.
CountHeaderOther(shape) == IF shape = "rel" THEN Len(relocsAddends) ELSE Len(relocs)
CountHeader(shape) == IF shape = "rel" THEN Len(relocs) ELSE Len(relocsAddends)

Block(store, shape) ==
  IF store = <<>> THEN { <<>> }
  ELSE { <<[kind |-> "count", shape |-> shape, n |-> CountHeader(shape)],
           [kind |-> "columns", shape |-> shape]>> \o ls :
           ls \in EntryLines(store, shape, 1) }

dumpRelocs ==
  { a \o b : a \in Block(relocs, "rel"), b \in Block(relocsAddends, "rela") }

\* ----------------------------------------------------------------------- swapN
\* std::swap(a.r_offset, b.r_offset) on the two local copies.
SwapRelWhole(a, b) == <<b, a>>
SwapRel(a, b) ==
  << [a EXCEPT !.r_offset = b.r_offset], [b EXCEPT !.r_offset = a.r_offset] >>

SwapRela(a, b) ==
  << [a EXCEPT !.r_offset = b.r_offset, !.r_addend = b.r_addend],
     [b EXCEPT !.r_offset = a.r_offset, !.r_addend = a.r_addend] >>

EncodeRel(r)  == <<r.r_offset, r.r_info>>
EncodeRela(r) == <<r.r_offset, r.r_info, r.r_addend>>

\* output.seekp(off); output.write(cells)
WriteAt(file, off, cells) ==
  [k \in 1..Max(Len(file), off + Len(cells)) |->
     IF k > off /\ k <= off + Len(cells) THEN cells[k - off]
     ELSE IF k <= Len(file) THEN file[k] ELSE 0]

\* The values useRelocs can take in a round (rand() % 2 when both sequences
\* hold entries); none when both are empty and the round returns.
UseRelocs ==
  IF relocs # <<>> /\ relocsAddends # <<>> THEN {TRUE, FALSE}
  ELSE IF relocs # <<>> THEN {TRUE}
  ELSE IF relocsAddends # <<>> THEN {FALSE}
  ELSE {}

\* Both sequences empty: the round returns from swapN.
EmptyRoundContinue(k) == [i |-> k + 1, pc |-> "swapN"]
EmptyRound(k) == [i |-> k, pc |-> "done"]

\* -------------------------------------------------------------------- main
\* if (outFname && nSwaps > 0)
ShouldSwapFromZero(fname, n) == fname /\ n >= 0
ShouldSwap(fname, n) == fname /\ n > 0

\* parseElf's check of e_ident.
IdentRejectedNoClass(id) == ~id.readOk \/ ~id.magicOk
IdentRejected(id) ==
  ~id.readOk \/ ~id.magicOk \/ id.class \notin {"ELFCLASS32", "ELFCLASS64"}

ParseErrs ==
  { "Failed to read ELF header.",
    "Failed to read the section string table header.",
    "Failed to read the section string table.",
    "Failed to read section header.",
    "Failed to read relocation.",
    "Failed to read string table.",
    "Failed to read symbol table entry." }

Init ==
  /\ pc = "main"
  /\ err = None
  /\ nSwaps \in -1..MaxSwaps
  /\ doDump \in BOOLEAN
  /\ outFname \in BOOLEAN
  /\ ident = None
  /\ cls = None
  /\ e_shnum = 0
  /\ i = 0
  /\ shdrs = <<>>
  /\ relocs = <<>>
  /\ relocsAddends = <<>>
  /\ symbolTable = <<>>
  /\ stringTable = <<>>
  /\ sectionStringTable = <<>>
  /\ stdout = <<>>
  /\ output = NoFile
  /\ ioOps = 0
  /\ rInfo = None /\ symName = None /\ strReads = {} /\ symReads = {}

\* errExit(msg)
errExit(msg) ==
  /\ pc' = "failed"
  /\ err' = msg

\* main, lines 304-312: clamp the count, open the input file.
Main ==
  /\ pc = "main"
  /\ nSwaps' = IF nSwaps < 0 THEN 0 ELSE nSwaps
  /\ \/ errExit("Failed to open input file")
     \/ pc' = "parseElf" /\ err' = err
  /\ UNCHANGED <<doDump, outFname, ident, cls, e_shnum, i, shdrs, elfVars,
                 sectionStringTable, stdout, output, ioOps, symVars>>

\* parseElf, lines 260-273.
parseElf ==
  /\ pc = "parseElf"
  /\ \E id \in Idents :
       /\ ident' = id
       /\ IF IdentRejected(id)
          THEN errExit("Failed to read ELF header.") /\ cls' = cls
          ELSE /\ cls' = IF id.class = "ELFCLASS32" THEN "ELFCLASS32" ELSE "ELFCLASS64"
               /\ pc' = "parse" /\ err' = err
  /\ UNCHANGED <<argVars, e_shnum, i, shdrs, elfVars, sectionStringTable,
                 stdout, output, ioOps, symVars>>

\* ElfT::parse up to the section loop, lines 213-222, with
\* addSectionStringTable, lines 63-78.
parseHeader ==
  /\ pc = "parse"
  /\ \/ errExit("Failed to read ELF header.")
        /\ UNCHANGED <<e_shnum, sectionStringTable>>
     \/ \E n \in 0..MaxShnum :
          /\ e_shnum' = n
          /\ \/ errExit("Failed to read the section string table header.")
                /\ UNCHANGED sectionStringTable
             \/ errExit("Failed to read the section string table.")
                /\ sectionStringTable' = [k \in 1..Len(SectionNames) |-> ""]
             \/ /\ sectionStringTable' = SectionNames
                /\ pc' = "sections" /\ err' = err
  /\ i' = 0
  /\ UNCHANGED <<argVars, ident, cls, shdrs, elfVars, stdout, output, ioOps, symVars>>

\* One iteration of the section loop, lines 223-238.
parseSection ==
  /\ pc = "sections"
  /\ i < e_shnum
  /\ \/ /\ errExit("Failed to read section header.")
        /\ UNCHANGED <<i, shdrs, elfVars>>
     \/ \E shdr \in Shdrs :
          LET r == IF IsRelocSection(shdr) THEN addRels(shdr)
                   ELSE IF IsDynStr(shdr) THEN addStringTable(shdr)
                   ELSE IF IsDynSym(shdr) THEN addSymbolTable(shdr)
                   ELSE [ok |-> TRUE, msg |-> "", relocs |-> relocs,
                         relocsAddends |-> relocsAddends,
                         symbolTable |-> symbolTable, stringTable |-> stringTable]
          IN /\ shdrs' = Append(shdrs, shdr)
             /\ relocs' = r.relocs
             /\ relocsAddends' = r.relocsAddends
             /\ symbolTable' = r.symbolTable
             /\ stringTable' = r.stringTable
             /\ IF r.ok
                THEN i' = i + 1 /\ pc' = pc /\ err' = err
                ELSE i' = i /\ errExit(r.msg)
  /\ UNCHANGED <<argVars, ident, cls, e_shnum, sectionStringTable, stdout,
                 output, ioOps, symVars>>

\* The section loop ends; parse and parseElf return.
parseReturn ==
  /\ pc = "sections"
  /\ i >= e_shnum
  /\ pc' = "dump"
  /\ UNCHANGED <<err, argVars, ident, cls, e_shnum, i, shdrs, elfVars,
                 sectionStringTable, stdout, output, ioOps, symVars>>

\* main, line 316.
Dump ==
  /\ pc = "dump"
  /\ IF doDump
     THEN \E lines \in dumpRelocs :
            stdout' = stdout \o lines /\ pc' = "shuffle"
     ELSE stdout' = stdout /\ pc' = "shuffle"
  /\ UNCHANGED <<err, argVars, ident, cls, e_shnum, i, shdrs, elfVars,
                 sectionStringTable, output, ioOps, symVars>>

\* main, lines 317-324: open and truncate the output, copy the input to it.
CopyFile(src) == src

Shuffle ==
  /\ pc = "shuffle"
  /\ IF ShouldSwap(outFname, nSwaps)
     THEN \/ errExit("Failed to open/truncate") /\ output' = output
          \/ errExit("Failed to replicate") /\ output' = <<>>
          \/ output' = CopyFile(input) /\ pc' = "swapN" /\ err' = err
     ELSE output' = output /\ pc' = "done" /\ err' = err
  /\ i' = 0
  /\ UNCHANGED <<argVars, ident, cls, e_shnum, shdrs, elfVars,
                 sectionStringTable, stdout, ioOps, symVars>>

\* One round of swapN, lines 161-202.
swapRound ==
  /\ pc = "swapN"
  /\ i < nSwaps
  /\ IF UseRelocs = {}
     THEN /\ i' = EmptyRound(i).i
          /\ pc' = EmptyRound(i).pc
          /\ UNCHANGED <<output, ioOps, stdout>>
     ELSE \E useRelocs \in UseRelocs :
            LET store == IF useRelocs THEN relocs ELSE relocsAddends
            IN \E aIdx \in 0..(Len(store) - 1), bIdx \in 0..(Len(store) - 1) :
                 LET ab == IF useRelocs
                           THEN SwapRel(store[aIdx + 1].second, store[bIdx + 1].second)
                           ELSE SwapRela(store[aIdx + 1].second, store[bIdx + 1].second)
                     ca == IF useRelocs THEN EncodeRel(ab[1]) ELSE EncodeRela(ab[1])
                     cb == IF useRelocs THEN EncodeRel(ab[2]) ELSE EncodeRela(ab[2])
                 IN /\ output' = WriteAt(WriteAt(output, store[aIdx + 1].first, ca),
                                         store[bIdx + 1].first, cb)
                    /\ ioOps' = ioOps + 4
                    /\ stdout' = Append(stdout,
                                   [kind |-> "swapped", useRelocs |-> useRelocs,
                                    aIdx |-> aIdx, bIdx |-> bIdx])
                    /\ i' = i + 1
                    /\ pc' = pc
  /\ UNCHANGED <<err, argVars, ident, cls, e_shnum, shdrs, elfVars,
                 sectionStringTable, symVars>>

\* The loop of swapN ends; main returns 0.
swapReturn ==
  /\ pc = "swapN"
  /\ i >= nSwaps
  /\ pc' = "done"
  /\ UNCHANGED <<err, argVars, ident, cls, e_shnum, i, shdrs, elfVars,
                 sectionStringTable, stdout, output, ioOps, symVars>>

Next ==
  \/ Main
  \/ parseElf
  \/ parseHeader
  \/ parseSection
  \/ parseReturn
  \/ Dump
  \/ Shuffle
  \/ swapRound
  \/ swapReturn

Spec == Init /\ [][Next]_vars

\* ------------------------------------------------- relocSymName on its own
MaxSyms   == 2     \* symbols of a symbol table
MaxStrLen == 3     \* bytes of a dynamic string table

SeqsUpTo(S, n) == UNION { [1..m -> S] : m \in 0..n }

SymTabs == SeqsUpTo(0..MaxStrLen, MaxSyms)
StrTabs == SeqsUpTo({0, 102, 111}, MaxStrLen)

\* Values of r_info: 32 bits for ELFCLASS32.
Infos(c) ==
  IF c = "ELFCLASS32"
  THEN { [hi |-> 0, lo |-> l] : l \in {0, 255, 256, 511, 512, 768} }
  ELSE { [hi |-> h, lo |-> l] : h \in 0..3, l \in {0, 256} }

InitSym ==
  /\ pc = "relocSymName"
  /\ err = None
  /\ nSwaps = 0 /\ doDump = TRUE /\ outFname = FALSE
  /\ ident = None
  /\ cls \in {"ELFCLASS32", "ELFCLASS64"}
  /\ e_shnum = 0
  /\ i = 0
  /\ shdrs = <<>>
  /\ relocs = <<>>
  /\ relocsAddends = <<>>
  /\ symbolTable \in SymTabs
  /\ stringTable \in StrTabs
  /\ sectionStringTable = SectionNames
  /\ stdout = <<>>
  /\ output = NoFile
  /\ ioOps = 0
  /\ rInfo = None /\ symName = None /\ strReads = {} /\ symReads = {}

\* One call relocSymName(info), as dumpReloc makes it.
callRelocSymName ==
  /\ pc \in {"relocSymName", "returned"}
  /\ \E info \in Infos(cls) :
       \E o \in relocSymName(info, cls, symbolTable, stringTable) :
         /\ rInfo' = info
         /\ symName' = o.name
         /\ strReads' = o.strReads
         /\ symReads' = o.symReads
         /\ pc' = IF o.crash THEN "crashed" ELSE "returned"
  /\ UNCHANGED <<err, argVars, ident, cls, e_shnum, i, shdrs, elfVars,
                 sectionStringTable, stdout, output, ioOps>>

NextSym == callRelocSymName

SpecSym == InitSym /\ [][NextSym]_vars

\* =================================================================== claims
\* ---- helpers of the claims
Recognized(h) == IsRelocSection(h) \/ IsDynStr(h) \/ IsDynSym(h)

\* The store a header is loaded into: "rel", "rela", "sym", "str" or "none".
StoreOf(h) ==
  IF IsRelocSection(h) THEN (IF h.sh_type = "SHT_REL" THEN "rel" ELSE "rela")
  ELSE IF IsDynStr(h) THEN "str"
  ELSE IF IsDynSym(h) THEN "sym"
  ELSE "none"

\* Sum of sh_size / sh_entsize over the headers hs[1..n] loaded into store.
RECURSIVE SumCount(_, _, _)
SumCount(hs, n, store) ==
  IF n = 0 THEN 0
  ELSE SumCount(hs, n - 1, store)
       + (IF StoreOf(hs[n]) = store THEN EntryCount(hs[n]) ELSE 0)

\* The stored entries: <<shape, position>>, with their cells in the file.
EntryIds ==
  ({"rel"} \X (1..Len(relocs))) \cup ({"rela"} \X (1..Len(relocsAddends)))
First(e) == IF e[1] = "rel" THEN relocs[e[2]].first ELSE relocsAddends[e[2]].first
Width(e) == IF e[1] = "rel" THEN SizeofRel ELSE SizeofRela
Range(e) == (First(e) + 1)..(First(e) + Width(e))
InfoCell(e) == First(e) + 2

Parsed   == pc \in {"dump", "shuffle", "swapN", "done"}
Copied   == pc \in {"swapN", "done"} /\ ShouldSwap(outFname, nSwaps)

\* The picks of the round a step makes, if it makes one.
RoundStep == pc = "swapN" /\ Len(stdout') = Len(stdout) + 1
Pick == stdout'[Len(stdout')]
PickStore == IF Pick.useRelocs THEN relocs ELSE relocsAddends

\* 1-based position in its store of entry k (from 0) of header shdrs[j].
PosOf(j, k) == SumCount(shdrs, j - 1, StoreOf(shdrs[j])) + k + 1

RelocHeaders == { j \in 1..Len(shdrs) : StoreOf(shdrs[j]) \in {"rel", "rela"} }

\* The cells of the last .dynstr section among hs[1..n].
RECURSIVE LastStr(_, _)
LastStr(hs, n) ==
  IF n = 0 THEN <<>>
  ELSE IF StoreOf(hs[n]) = "str" THEN Cells(hs[n].sh_offset, hs[n].sh_size)
  ELSE LastStr(hs, n - 1)

CountLines == { k \in 1..Len(stdout) : stdout[k].kind = "count" }
CountsPrinted(shape) == { stdout[k].n : k \in { c \in CountLines : stdout[c].shape = shape } }

\* ---------------------------------------------------------------------- C1
\* C1 (as claimed): once the output is a copy and after any rounds, the
\* r_info cell of every stored entry holds in the output what it holds in
\* the input.
C1_InfoUntouched ==
  Copied => \A e \in EntryIds : output[InfoCell(e)] = input[InfoCell(e)]

\* Two stored entries either share no cell or are the same cells read twice
\* into the same sequence.
NoPartialOverlap ==
  \A e, f \in EntryIds :
    e # f => \/ Range(e) \cap Range(f) = {}
             \/ e[1] = f[1] /\ First(e) = First(f)

\* C1 (amended): the same, for images whose stored entries do not partly
\* overlap one another in the file.
C1_InfoUntouchedDisjoint ==
  Copied =>
    \/ \A e \in EntryIds : output[InfoCell(e)] = input[InfoCell(e)]
    \/ ~NoPartialOverlap

C1_Witness ==
  /\ pc = "done" /\ Copied /\ NoPartialOverlap
  /\ Len(relocs) >= 2
  /\ output # input

\* ---------------------------------------------------------------------- C2
\* No two stored entries share a cell of the file.
AllDisjoint ==
  \A e, f \in EntryIds : e # f => Range(e) \cap Range(f) = {}

\* C2 (as claimed, taken on images whose stored entries share no cell): a
\* round that picks a # b leaves at entry a the r_offset (and r_addend) that
\* entry b held in the output before the round, and at entry b the ones
\* entry a held, so the sum of the two r_offsets is kept.
C2_RoundExchanges ==
  [][ RoundStep /\ AllDisjoint /\ Pick.aIdx # Pick.bIdx =>
        LET fa == PickStore[Pick.aIdx + 1].first
            fb == PickStore[Pick.bIdx + 1].first
        IN /\ output'[fa + 1] = output[fb + 1]
           /\ output'[fb + 1] = output[fa + 1]
           /\ ~Pick.useRelocs => /\ output'[fa + 3] = output[fb + 3]
                                 /\ output'[fb + 3] = output[fa + 3]
           /\ output'[fa + 1] + output'[fb + 1] = output[fa + 1] + output[fb + 1]
    ]_vars

\* ---------------------------------------------------------------------- C3
\* C3 (as claimed, taken on images whose stored entries share no cell): a
\* round that picks a = b leaves the output file as it was before the round.
C3_SamePickNoOp ==
  [][ RoundStep /\ AllDisjoint /\ Pick.aIdx = Pick.bIdx => output' = output ]_vars

\* ---------------------------------------------------------------------- C4
\* C4: with both sequences empty swapN returns in its first round, makes no
\* seekp or write, leaves the output equal to the input and ends without
\* error.
C4_EmptyStops ==
  Copied /\ relocs = <<>> /\ relocsAddends = <<>> =>
    /\ output = input
    /\ ioOps = 0
    /\ i = 0
    /\ err = None

C4_Witness ==
  /\ pc = "done" /\ Copied
  /\ relocs = <<>> /\ relocsAddends = <<>>
  /\ \E j \in 1..Len(shdrs) : StoreOf(shdrs[j]) = "rela"

\* ---------------------------------------------------------------------- C5
\* C5 (as claimed): with an output path and a count of 0 the run ends with
\* the output file a copy of the input.
C5_ZeroCopies ==
  pc = "done" /\ outFname /\ nSwaps = 0 => output = input

\* C5 (amended): a negative count is clamped to 0, and with an output path
\* and a count of 0 the output path is never opened, copied to or written.
C5_ZeroLeavesOutput ==
  /\ pc # "main" => nSwaps >= 0
  /\ outFname /\ nSwaps <= 0 => output = NoFile /\ ioOps = 0

C5_Witness ==
  pc = "done" /\ outFname /\ nSwaps = 0 /\ output = NoFile

\* ---------------------------------------------------------------------- C6
\* C6 (as claimed): a recognized section whose name an earlier recognized
\* section already had leaves the relocation store, the symbol table and
\* the string table unchanged.
C6_FirstOnly ==
  [][ ( /\ pc = "sections"
        /\ Len(shdrs') = Len(shdrs) + 1
        /\ Recognized(shdrs'[Len(shdrs')])
        /\ \E j \in 1..Len(shdrs) :
             /\ Recognized(shdrs[j])
             /\ shdrs[j].sh_name = shdrs'[Len(shdrs')].sh_name )
      => UNCHANGED elfVars ]_vars

\* C6 (amended): every recognized section contributes, repeated names
\* included: during parse and when it has returned each sequence holds the sum of sh_size / sh_entsize entries of
\* its sections, the symbol table that of the .dynsym sections, and the
\* string table is the last .dynstr section.
C6_EverySectionLoads ==
  pc \in {"sections", "dump"} =>
    /\ Len(relocs) = SumCount(shdrs, Len(shdrs), "rel")
    /\ Len(relocsAddends) = SumCount(shdrs, Len(shdrs), "rela")
    /\ Len(symbolTable) = SumCount(shdrs, Len(shdrs), "sym")
    /\ stringTable = LastStr(shdrs, Len(shdrs))

C6_Witness ==
  /\ Parsed
  /\ Len(shdrs) = 2
  /\ StoreOf(shdrs[1]) = "rel" /\ StoreOf(shdrs[2]) = "rel"
  /\ shdrs[1].sh_name = shdrs[2].sh_name
  /\ EntryCount(shdrs[1]) = 2 /\ EntryCount(shdrs[2]) = 2
  /\ Len(relocs) = 4

\* ---------------------------------------------------------------------- C7
\* C7 (as claimed): the number in a count header is sh_size / sh_entsize of
\* a recognized relocation section of that shape.
C7_CountOfSection ==
  \A k \in CountLines :
    \E j \in RelocHeaders :
      /\ StoreOf(shdrs[j]) = stdout[k].shape
      /\ stdout[k].n = EntryCount(shdrs[j])

\* C7 (amended): when dumpRelocs has returned, the number in a count header
\* is the sum of
\* sh_size / sh_entsize over all recognized relocation sections of that type,
\* and the header is printed exactly when that sum is positive.
C7_CountIsSum ==
  pc = "shuffle" /\ doDump =>
    \A shape \in {"rel", "rela"} :
      CountsPrinted(shape) =
        IF SumCount(shdrs, Len(shdrs), shape) > 0
        THEN { SumCount(shdrs, Len(shdrs), shape) }
        ELSE {}

C7_Witness ==
  /\ pc = "shuffle" /\ doDump
  /\ Len(shdrs) = 2
  /\ StoreOf(shdrs[1]) = "rela" /\ StoreOf(shdrs[2]) = "rela"
  /\ shdrs[1].sh_name # shdrs[2].sh_name
  /\ CountsPrinted("rela") = {3}

\* ---------------------------------------------------------------------- C8
\* C8 (as claimed): relocSymName returns "N/A" when the symbol index is not
\* below the number of symbols, and reads no element outside the symbol
\* table or the string table.
C8_NoReadOutside ==
  pc \in {"returned", "crashed"} =>
    /\ R_SYM(cls, rInfo) >= Len(symbolTable) => symName = NA
    /\ \A p \in symReads : p < Len(symbolTable)
    /\ \A p \in strReads : p < Len(stringTable)

\* ---------------------------------------------------------------------- C9
\* Entries of one section (header j) share no cell.
SectionDisjoint(j) ==
  \A k1, k2 \in 0..(EntryCount(shdrs[j]) - 1) :
    k1 # k2 => Range(<<StoreOf(shdrs[j]), PosOf(j, k1)>>)
               \cap Range(<<StoreOf(shdrs[j]), PosOf(j, k2)>>) = {}

\* The output has the size of the input and differs from it only in cells
\* of stored entries.
OnlyEntriesWritten ==
  Copied => /\ Len(output) = Len(input)
            /\ \A c \in 1..Len(input) :
                 \/ output[c] = input[c]
                 \/ \E e \in EntryIds : c > First(e) /\ c <= First(e) + Width(e)

\* C9 (as claimed): when parse has returned, entry k of a section is stored
\* with offset sh_offset + k * sh_entsize and distinct stored entries share
\* no cell; and the rounds change neither the size of the output nor a cell
\* outside the stored entries.
C9_OffsetsByEntsize ==
  /\ pc = "dump" =>
    /\ \A j \in RelocHeaders :
         \A k \in 0..(EntryCount(shdrs[j]) - 1) :
           First(<<StoreOf(shdrs[j]), PosOf(j, k)>>)
             = shdrs[j].sh_offset + k * shdrs[j].sh_entsize
    /\ \A e, f \in EntryIds : e # f => Range(e) \cap Range(f) = {}
  /\ OnlyEntriesWritten

\* C9 (amended): when parse has returned, entry k of a section is stored
\* with offset sh_offset + k * (width of an entry) and entries of one
\* section share no cell; and the rounds change neither the size of the
\* output nor a cell outside the stored entries.
C9_OffsetsByWidth ==
  /\ pc = "dump" =>
    /\ \A j \in RelocHeaders :
         /\ \A k \in 0..(EntryCount(shdrs[j]) - 1) :
              First(<<StoreOf(shdrs[j]), PosOf(j, k)>>)
                = shdrs[j].sh_offset + k * Width(<<StoreOf(shdrs[j]), 1>>)
         /\ SectionDisjoint(j)
  /\ OnlyEntriesWritten

C9_Witness ==
  /\ pc = "done" /\ Copied
  /\ output # input
  /\ \E j \in RelocHeaders :
       /\ shdrs[j].sh_entsize # Width(<<StoreOf(shdrs[j]), 1>>)
       /\ EntryCount(shdrs[j]) >= 2

\* --------------------------------------------------------------------- C10
\* C10: a run that a parse-time failure ended has printed nothing and has
\* not touched the output path, and an e_ident that fails the check (short
\* read, wrong magic, class neither 32- nor 64-bit) ends the run in
\* parseElf.
C10_ParseFailureTouchesNothing ==
  /\ pc = "failed" /\ err \in ParseErrs =>
       stdout = <<>> /\ output = NoFile /\ ioOps = 0
  /\ ( /\ pc \notin {"main", "parseElf"}
       /\ err # "Failed to open input file"
       /\ \/ ~ident.readOk
          \/ ~ident.magicOk
          \/ ident.class \notin {"ELFCLASS32", "ELFCLASS64"} )
     => pc = "failed" /\ err = "Failed to read ELF header."
  /\ pc \in {"dump", "shuffle", "swapN", "done"} => err = None
  /\ stdout # <<>> \/ output # NoFile => err \notin ParseErrs

C10_Witness ==
  /\ pc = "failed" /\ err = "Failed to read relocation."
  /\ doDump /\ outFname /\ nSwaps > 0
  /\ relocs # <<>>
====
